---- MODULE Spec2Model ----
(***************************************************************************)
(* Consent state machine of cookie-app: the CookieConsent component        *)
(* (src/src/CookieConsent.tsx), the useConsent hook (use-consent.ts, kept   *)
(* as src/unnamed/part_000 lines 514-616) and the localStorage pair they    *)
(* share.  One action is one browser task: an event handler or a timer      *)
(* callback, the React render that follows it with its batched state        *)
(* updates, and the effects of that render.                                 *)
(***************************************************************************)
EXTENDS Integers, Sequences, FiniteSets, TLC

\* ------------------------------------------------------------------ constants
DEFAULT_EXPIRY_DAYS == 365
DEFAULT_WAIT_FOR_UPDATE == 500

\* ------------------------------------------------------------------ bounds
\* Number of clock ticks in one day (the code divides milliseconds by
\* 1000*60*60*24; the model keeps the fraction with a coarser tick).
TicksPerDay == 1
\* Last clock value the model reaches.
MaxNow == 2
\* Exit-delay timers one component may have pending at once.
MaxTimers == 2
\* Storage events of the other tab not yet delivered to this page.
MaxPending == 1
\* Saturation value of the per-component injection counter.
InjCap == 2
MaxFrames == 2

\* ------------------------------------------------------------------ domains
CompOrder == <<"banner">>
Comps == {CompOrder[i] : i \in 1..Len(CompOrder)}
Hooks == {"status"}
Markups == {"", "<script>"}
Levels == {"all", "necessary"}
NULL == "null"
ExpiryChoices == {1}

TrackingCats == {"ad_storage", "ad_user_data", "ad_personalization", "analytics_storage"}
OtherCats == {"functionality_storage", "personalization_storage", "security_storage"}

NoDate == [kind |-> "null", ms |-> 0]
BadDate == [kind |-> "NaN", ms |-> 0]
NumDate(t) == [kind |-> "num", ms |-> t]
DateValues == {NoDate, BadDate} \cup {NumDate(t) : t \in 0..MaxNow}

VARIABLES
  ls,          \* localStorage: [mode, level, date]
  now,         \* Date.now(), in ticks
  comp,        \* comp[c]: state, refs, props and pending callbacks of a CookieConsent
  hook,        \* hook[h]: a component that calls useConsent()
  listeners,   \* window listeners of the change / storage events, in registration order
  gtagDefined, \* window.gtag is a function
  pending,     \* storage events fired by the other tab and not yet handled here
  other,       \* the other tab's progress through the two writes of its decision
  signal,      \* the most recent consent entry pushed to window.dataLayer
  out          \* what the last task did: operation, signals, injections, callbacks

vars == <<ls, now, comp, hook, listeners, gtagDefined, pending, other, signal, out>>

\* ------------------------------------------------------------------ storage
\* localStorage.getItem: throws when storage is unavailable.
getItem(st, key) ==
  IF st.mode = "off" THEN [threw |-> TRUE, val |-> NULL]
  ELSE IF key = "loi25-consent" THEN [threw |-> FALSE, val |-> st.level]
  ELSE [threw |-> FALSE, val |-> st.date.kind]

\* localStorage.setItem(STORAGE_KEY, level)
setLevel(st, level) ==
  IF st.mode = "off" THEN [threw |-> TRUE, st |-> st]
  ELSE [threw |-> FALSE, st |-> [st EXCEPT !.level = level]]

\* The timestamp entry does not fit: storage is unavailable, or its quota has
\* room left for the level entry but not for a new timestamp entry.
NoRoomForDate(st) == st.mode = "off" \/ (st.mode = "tight" /\ st.date = NoDate)

\* Mutant: a constant is stored in place of the current time.
setDate_Epoch(st, t) ==
  IF NoRoomForDate(st) THEN [threw |-> TRUE, st |-> st]
  ELSE [threw |-> FALSE, st |-> [st EXCEPT !.date = NumDate(0)]]

\* localStorage.setItem(STORAGE_DATE_KEY, Date.now().toString())
setDate(st, t) ==
  IF NoRoomForDate(st) THEN [threw |-> TRUE, st |-> st]
  ELSE [threw |-> FALSE, st |-> [st EXCEPT !.date = NumDate(t)]]

\* localStorage.removeItem(key)
removeItem(st, key) ==
  IF st.mode = "off" THEN [threw |-> TRUE, st |-> st]
  ELSE IF key = "loi25-consent" THEN [threw |-> FALSE, st |-> [st EXCEPT !.level = NULL]]
  ELSE [threw |-> FALSE, st |-> [st EXCEPT !.date = NoDate]]

\* Mutant: the boundary age counts as expired.
AgeExceeds_AtBoundary(d, t, expiryDays) ==
  IF d.kind = "NaN" THEN FALSE
  ELSE t - d.ms >= expiryDays * TicksPerDay

\* age > expiryDays, with age = (Date.now() - parseInt(d, 10)) / one day.
\* parseInt of a malformed entry is NaN, and every comparison with NaN is false.
AgeExceeds(d, t, expiryDays) ==
  IF d.kind = "NaN" THEN FALSE
  ELSE t - d.ms > expiryDays * TicksPerDay

\* isExpired (same body in CookieConsent.tsx and in use-consent.ts)
isExpired(st, t, expiryDays) ==
  LET d == getItem(st, "loi25-consent-date") IN
  IF d.threw THEN [threw |-> FALSE, val |-> TRUE]
  ELSE IF d.val = NULL THEN [threw |-> FALSE, val |-> TRUE]
  ELSE [threw |-> FALSE, val |-> AgeExceeds(st.date, t, expiryDays)]

\* Mutant: no try/catch around the read.
getStoredConsent_NoCatch(st, t, expiryDays) ==
  LET stored == getItem(st, "loi25-consent")
      expired == isExpired(st, t, expiryDays)
      r1 == removeItem(st, "loi25-consent")
      r2 == removeItem(r1.st, "loi25-consent-date")
  IN
  IF stored.threw THEN [threw |-> TRUE, val |-> NULL, st |-> st]
  ELSE IF stored.val # NULL /\ ~expired.val THEN [threw |-> FALSE, val |-> stored.val, st |-> st]
  ELSE IF stored.val # NULL THEN [threw |-> r1.threw \/ r2.threw, val |-> NULL, st |-> r2.st]
  ELSE [threw |-> FALSE, val |-> NULL, st |-> st]

\* getStoredConsent: the valid stored level, or null after deleting an expired record.
getStoredConsent(st, t, expiryDays) ==
  LET stored == getItem(st, "loi25-consent")
      expired == isExpired(st, t, expiryDays)
      r1 == removeItem(st, "loi25-consent")
      r2 == removeItem(r1.st, "loi25-consent-date")
  IN
  IF stored.threw THEN [threw |-> FALSE, val |-> NULL, st |-> st]
  ELSE IF stored.val # NULL /\ ~expired.val THEN [threw |-> FALSE, val |-> stored.val, st |-> st]
  ELSE IF stored.val # NULL THEN
    IF r1.threw \/ r2.threw THEN [threw |-> FALSE, val |-> NULL, st |-> r1.st]
    ELSE [threw |-> FALSE, val |-> NULL, st |-> r2.st]
  ELSE [threw |-> FALSE, val |-> NULL, st |-> st]

\* Mutant: the timestamp is not written.
writeConsent_LevelOnly(st, level, t) ==
  LET a == setLevel(st, level) IN
  IF a.threw THEN [threw |-> FALSE, st |-> st] ELSE [threw |-> FALSE, st |-> a.st]

\* try { setItem(STORAGE_KEY, level); setItem(STORAGE_DATE_KEY, now) } catch {}
writeConsent(st, level, t) ==
  LET a == setLevel(st, level)
      b == setDate(a.st, t)
  IN
  IF a.threw THEN [threw |-> FALSE, st |-> st]
  ELSE IF b.threw THEN [threw |-> FALSE, st |-> a.st]
  ELSE [threw |-> FALSE, st |-> b.st]

\* Mutant: the timestamp is not removed.
clearConsent_KeepDate(st) ==
  LET a == removeItem(st, "loi25-consent") IN
  IF a.threw THEN [threw |-> FALSE, st |-> st] ELSE [threw |-> FALSE, st |-> a.st]

\* try { removeItem(STORAGE_KEY); removeItem(STORAGE_DATE_KEY) } catch {}
clearConsent(st) ==
  LET a == removeItem(st, "loi25-consent")
      b == removeItem(a.st, "loi25-consent-date")
  IN
  IF a.threw THEN [threw |-> FALSE, st |-> st]
  ELSE IF b.threw THEN [threw |-> FALSE, st |-> a.st]
  ELSE [threw |-> FALSE, st |-> b.st]

\* getSnapshot of the hook's external store
getSnapshot(st) ==
  LET r == getItem(st, "loi25-consent") IN
  IF r.threw THEN [threw |-> FALSE, val |-> NULL] ELSE [threw |-> FALSE, val |-> r.val]

\* ------------------------------------------------------------------ signals
\* An optional list prop or option: <<>> when it is not given, <<list>> when it is.
RegionChoices == {<<>>, << <<>> >>, << <<"CA-QC">> >>}

\* region && region.length > 0
HasRegion(region) == region # <<>> /\ Len(region[1]) > 0

\* gtag("consent", "default", defaultConsent); the region field is <<>> when
\* defaultConsent has no region key, <<list>> when it has.
DefaultCall(waitForUpdate, consentModeRegion) ==
  [cmd |-> "default",
   args |-> [k \in TrackingCats \cup OtherCats |-> IF k \in TrackingCats THEN "denied" ELSE "granted"],
   wait_for_update |-> waitForUpdate,
   region |-> IF HasRegion(consentModeRegion) THEN consentModeRegion ELSE <<>>]

\* gtag("consent", "update", {...})
UpdateCall(granted) ==
  [cmd |-> "update",
   args |-> [k \in TrackingCats |-> IF granted THEN "granted" ELSE "denied"]]

\* What the dataLayer's most recent consent entry says about the tracking
\* categories, after the calls of one task were pushed onto it.
SignalAfter(prev, calls) ==
  IF calls = <<>> THEN prev
  ELSE LET last == calls[Len(calls)] IN
       IF \A k \in TrackingCats : last.args[k] = "granted" THEN "granted" ELSE "denied"

\* ------------------------------------------------------------------ component
\* useState / useRef initial values of CookieConsent, with the props given.
InitComp(scripts, consentMode, reloadOnConsent, showReconsent, expiryDays) ==
  [inTree |-> "no", mounted |-> FALSE, showBanner |-> FALSE, isVisible |-> FALSE,
   consent |-> NULL, scriptsInjectedRef |-> FALSE, consentModeInitRef |-> FALSE,
   raf1 |-> FALSE, raf2 |-> FALSE, timers |-> <<>>, escConsentMode |-> FALSE,
   scripts |-> scripts, consentMode |-> consentMode, reloadOnConsent |-> reloadOnConsent,
   showReconsent |-> showReconsent, expiryDays |-> expiryDays,
   injCount |-> 0, everInjected |-> FALSE, awaiting |-> FALSE,
   waitForUpdate |-> DEFAULT_WAIT_FOR_UPDATE, consentModeRegion |-> <<>>, defaultCount |-> 0,
   frames |-> 0]

\* The instance after it has left the tree: its state is discarded, its exit
\* timers and its second animation frame are still scheduled.
GoneComp(r) ==
  [InitComp(r.scripts, r.consentMode, r.reloadOnConsent, r.showReconsent, r.expiryDays)
     EXCEPT !.inTree = "gone", !.timers = r.timers, !.raf2 = r.raf2,
            !.waitForUpdate = r.waitForUpdate, !.consentModeRegion = r.consentModeRegion]

Live(r) == r.inTree = "yes" /\ r.mounted

\* The effects of one render of CookieConsent: o is the previous committed
\* render, n the new one; an effect runs when one of its dependencies differs.
IncCount(k) == IF k < InjCap THEN k + 1 ELSE k

\* The animation-frame callbacks of the component that have run since the
\* prompt last entered the document.
IncFrames(k) == IF k < MaxFrames THEN k + 1 ELSE k

\* Mutant: the consent level is not looked at.
ShouldInject_IgnoreLevel(o, n) ==
  /\ (o.scripts # n.scripts \/ o.consent # n.consent \/ o.mounted # n.mounted)
  /\ n.scripts # "" /\ n.mounted /\ ~n.scriptsInjectedRef

\* Mutant: the one-shot guard is not looked at.
ShouldInject_NoGuard(o, n) ==
  /\ (o.scripts # n.scripts \/ o.consent # n.consent \/ o.mounted # n.mounted)
  /\ n.scripts # "" /\ n.consent = "all" /\ n.mounted

\* Mutant: the effect also waits for the banner to be gone.
ShouldInject_AfterExit(o, n) ==
  /\ (o.scripts # n.scripts \/ o.consent # n.consent \/ o.mounted # n.mounted
      \/ o.showBanner # n.showBanner)
  /\ n.scripts # "" /\ n.consent = "all" /\ n.mounted /\ ~n.scriptsInjectedRef
  /\ ~n.showBanner

\* "Script Vault" effect, dependencies [scripts, consent, mounted]: it injects
\* unless one of its four early-return conditions holds.
ShouldInject(o, n) ==
  /\ (o.scripts # n.scripts \/ o.consent # n.consent \/ o.mounted # n.mounted)
  /\ n.scripts # "" /\ n.consent = "all" /\ n.mounted /\ ~n.scriptsInjectedRef

\* The dependencies of the Consent Mode effect that the model carries.
ConsentModeDeps(o, n) ==
  \/ o.consentMode # n.consentMode \/ o.consent # n.consent \/ o.mounted # n.mounted
  \/ o.waitForUpdate # n.waitForUpdate \/ o.consentModeRegion # n.consentModeRegion

\* Mutant: the effect does not wait for mounted.
ConsentModeRuns_Unmounted(o, n) ==
  /\ ConsentModeDeps(o, n)
  /\ n.consentMode

\* "Google Consent Mode v2" effect: it runs with consentMode on and mounted.
ConsentModeRuns(o, n) ==
  /\ ConsentModeDeps(o, n)
  /\ n.consentMode /\ n.mounted

\* Mutant: a stored "all" is not signalled at activation.
ConsentModeCalls_DefaultOnly(o, n) ==
  IF ConsentModeRuns(o, n) /\ ~n.consentModeInitRef
  THEN <<DefaultCall(n.waitForUpdate, n.consentModeRegion)>> ELSE <<>>

\* Mutant: the defaults are set at every run of the effect.
ConsentModeCalls_EveryRun(o, n) ==
  IF ConsentModeRuns(o, n)
  THEN <<DefaultCall(n.waitForUpdate, n.consentModeRegion)>>
       \o (IF n.consent = "all" THEN <<UpdateCall(TRUE)>> ELSE <<>>)
  ELSE <<>>

\* The calls of the effect's "only set defaults once" block.
ConsentModeCalls(o, n) ==
  IF ConsentModeRuns(o, n) /\ ~n.consentModeInitRef
  THEN <<DefaultCall(n.waitForUpdate, n.consentModeRegion)>>
       \o (IF n.consent = "all" THEN <<UpdateCall(TRUE)>> ELSE <<>>)
  ELSE <<>>

\* The effects with dependencies [mounted, expiryDays, showBanner] ("Sync",
\* which subscribes the handler) and [showBanner, mounted] ("Animate banner in").
BannerDepsChanged(o, n) == o.mounted # n.mounted \/ o.showBanner # n.showBanner

RunEffects(o, n) ==
  [rec |-> [n EXCEPT !.raf1 = IF BannerDepsChanged(o, n) THEN (n.showBanner /\ n.mounted) ELSE @,
                     !.frames = IF BannerDepsChanged(o, n) /\ n.showBanner /\ n.mounted THEN 0 ELSE @,
                     !.consentModeInitRef = @ \/ ConsentModeRuns(o, n),
                     !.scriptsInjectedRef = @ \/ ShouldInject(o, n),
                     !.injCount = IF ShouldInject(o, n) THEN IncCount(@) ELSE @,
                     !.everInjected = @ \/ ShouldInject(o, n),
                     !.defaultCount = IF \E i \in 1..Len(ConsentModeCalls(o, n)) :
                                             ConsentModeCalls(o, n)[i].cmd = "default"
                                        THEN IncCount(@) ELSE @,
                     !.escConsentMode = IF o.showBanner # n.showBanner /\ n.showBanner
                                        THEN n.consentMode ELSE @],
   calls |-> ConsentModeCalls(o, n),
   injected |-> ShouldInject(o, n),
   defGtag |-> ConsentModeRuns(o, n),
   relisten |-> BannerDepsChanged(o, n) /\ n.mounted]

\* ------------------------------------------------------------------ hook
InitHook(expiryDays) ==
  [mounted |-> FALSE, raw |-> NULL, consent |-> NULL, expiryDays |-> expiryDays]

\* Mutant: the snapshot is reported without the expiry validation.
HookRender_NoExpiry(h, st, t) ==
  LET s == getSnapshot(st)
  IN [h EXCEPT !.raw = s.val, !.consent = s.val]

\* One render of a useConsent consumer: the snapshot, validated against expiry.
HookRender(h, st, t) ==
  LET s == getSnapshot(st)
      isValid == s.val # NULL /\ ~isExpired(st, t, h.expiryDays).val
  IN [h EXCEPT !.raw = s.val, !.consent = IF isValid THEN s.val ELSE NULL]

\* An exception escaping the render of a useConsent consumer.
HookThrew(h, st, t) == getSnapshot(st).threw \/ isExpired(st, t, h.expiryDays).threw

\* ------------------------------------------------------------------ events
NoUpd == [has |-> FALSE, consent |-> NULL, show |-> FALSE]

NoNotify(st) == [st |-> st, upd |-> [d \in Comps |-> NoUpd], dirty |-> {}, threw |-> FALSE]

\* window.dispatchEvent / a storage event: every listener runs, in registration
\* order, against the storage as the listeners before it left it.  A component's
\* handler is the closure of its last committed render.
RECURSIVE Notify(_, _, _, _, _)
Notify(seq, acc, cs, hs, t) ==
  IF seq = <<>> THEN acc
  ELSE
    LET l == Head(seq) IN
    IF l.kind = "comp" THEN
      LET r == getStoredConsent(acc.st, t, cs[l.id].expiryDays)
          u == [has |-> TRUE, consent |-> r.val,
                show |-> (r.val = NULL /\ ~cs[l.id].showBanner)]
      IN Notify(Tail(seq),
                [acc EXCEPT !.st = r.st, !.upd[l.id] = u, !.threw = @ \/ r.threw],
                cs, hs, t)
    ELSE
      LET s == getSnapshot(acc.st) IN
      Notify(Tail(seq),
             [acc EXCEPT !.dirty = IF s.val # hs[l.id].raw THEN @ \cup {l.id} ELSE @,
                         !.threw = @ \/ s.threw],
             cs, hs, t)

\* The handler's state updates, queued after those of the task that dispatched.
ApplyNotify(b, u) ==
  IF ~u.has THEN b
  ELSE [b EXCEPT !.consent = u.consent,
                 !.isVisible = IF u.show THEN FALSE ELSE @,
                 !.showBanner = IF u.show THEN TRUE ELSE @]

RECURSIVE Relisten(_, _, _)
Relisten(seq, order, eff) ==
  IF order = <<>> THEN seq
  ELSE
    LET c == Head(order)
        without == SelectSeq(seq, LAMBDA l : ~(l.kind = "comp" /\ l.id = c))
    IN Relisten(IF eff[c].relisten THEN Append(without, [kind |-> "comp", id |-> c]) ELSE seq,
                Tail(order), eff)

RECURSIVE EffCalls(_, _)
EffCalls(order, eff) ==
  IF order = <<>> THEN <<>> ELSE eff[Head(order)].calls \o EffCalls(Tail(order), eff)

IdleOut ==
  [op |-> "idle", comp |-> NULL, level |-> NULL, calls |-> <<>>, injected |-> {},
   onConsent |-> <<>>, events |-> 0, error |-> FALSE, reload |-> FALSE, opts |-> <<>>,
   cb |-> <<>>, options |-> <<>>]

\* The rest of a task: the listeners run if an event was dispatched, React
\* renders every component with its batched updates, and the effects run.
Finish(o, st1, base, doNotify) ==
  \E acc \in {IF doNotify THEN Notify(listeners, NoNotify(st1), comp, hook, now)
              ELSE NoNotify(st1)} :
  \E eff \in {[d \in Comps |->
                 RunEffects(comp[d],
                            IF base[d].inTree = "yes" THEN ApplyNotify(base[d], acc.upd[d])
                            ELSE base[d])]} :
  /\ ls' = acc.st
  /\ comp' = [d \in Comps |-> eff[d].rec]
  /\ hook' = [h \in Hooks |-> IF h \in acc.dirty THEN HookRender(hook[h], acc.st, now) ELSE hook[h]]
  /\ listeners' = Relisten(listeners, CompOrder, eff)
  /\ gtagDefined' = (gtagDefined \/ \E d \in Comps : eff[d].defGtag)
  /\ signal' = SignalAfter(signal, o.calls \o EffCalls(CompOrder, eff))
  /\ out' = [o EXCEPT !.calls = @ \o EffCalls(CompOrder, eff),
                      !.injected = {d \in Comps : eff[d].injected},
                      !.events = IF doNotify THEN 1 ELSE 0,
                      !.error = @ \/ acc.threw
                                  \/ \E h \in acc.dirty : HookThrew(hook[h], acc.st, now)]

\* ------------------------------------------------------------------ initial states
\* The page before React renders anything.  Storage is whatever an earlier
\* visit, another tab or the user left there; props are what the host passes.
Stores ==
  {[mode |-> "ok", level |-> l, date |-> d] : l \in Levels \cup {NULL}, d \in {NoDate, BadDate, NumDate(0)}}
    \cup {[mode |-> "off", level |-> NULL, date |-> NoDate]}

\* Storage close to its quota, empty or holding a complete record.
QuotaStores ==
  {[mode |-> "tight", level |-> NULL, date |-> NoDate]}
    \cup {[mode |-> "tight", level |-> l, date |-> NumDate(0)] : l \in Levels}

InitWith(stores) ==
  /\ ls \in stores
  /\ now = 0
  /\ comp \in [Comps -> {InitComp(s, cm, rl, sr, e) :
                           s \in Markups, cm \in BOOLEAN, rl \in BOOLEAN,
                           sr \in {TRUE}, e \in ExpiryChoices}]
  /\ hook \in [Hooks -> {InitHook(e) : e \in ExpiryChoices}]
  /\ listeners = <<>>
  /\ gtagDefined = FALSE
  /\ pending = 0
  /\ other = [pc |-> "idle", level |-> NULL]
  /\ signal = "none"
  /\ out = IdleOut

Init == InitWith(Stores)

InitQuota == InitWith(QuotaStores)

Op(name, who, level) == [IdleOut EXCEPT !.op = name, !.comp = who, !.level = level]

\* ------------------------------------------------------------------ CookieConsent
\* First render: mounted is false, the component returns null.
Render(c) ==
  /\ comp[c].inTree = "no"
  /\ comp' = [comp EXCEPT ![c].inTree = "yes"]
  /\ out' = IdleOut
  /\ UNCHANGED <<ls, now, hook, listeners, gtagDefined, pending, other, signal>>

\* Mutant: the mount shows the prompt whatever it read.
ShowAtMount_Always(stored) == TRUE

\* if (!stored) setShowBanner(true)
ShowAtMount(stored) == stored = NULL

\* The effects of the first render ("Initialize on mount"), and the render
\* with mounted = true that follows, with its effects.
MountEffect(c) ==
  /\ comp[c].inTree = "yes" /\ ~comp[c].mounted
  /\ LET r == getStoredConsent(ls, now, comp[c].expiryDays)
         base == [comp EXCEPT ![c].mounted = TRUE,
                              ![c].consent = r.val,
                              ![c].showBanner = ShowAtMount(r.val)]
     IN Finish([Op("mount", c, r.val) EXCEPT !.error = r.threw], r.st, base, FALSE)
  /\ UNCHANGED <<now, pending, other>>

\* Mutant: the level of the decision is not looked at.
ReloadsAfterExit_AnyLevel(rl, level, s) == rl /\ s # ""

\* if (reloadOnConsent && level === "all" && scripts), as the timer's closure holds it.
ReloadsAfterExit(rl, level, s) == rl /\ level = "all" /\ s # ""

\* Mutant: the callback is fired before the storage writes.
onConsentCall_BeforeWrites(level, before, after) == <<[level |-> level, saw |-> before]>>

\* onConsent?.(level): one call, which finds storage as the try block of the
\* writes left it (after), not as the handler found it (before).
onConsentCall(level, before, after) == <<[level |-> level, saw |-> after]>>

\* handleConsent(level), as the closure that holds the props (cm, rl, s).
handleConsent(c, level, cm, rl, s, name) ==
  /\ Live(comp[c]) /\ comp[c].showBanner
  /\ Len(comp[c].timers) < MaxTimers
  /\ LET w == writeConsent(ls, level, now)
         base == [comp EXCEPT ![c].consent = level,
                              ![c].isVisible = FALSE,
                              ![c].timers = Append(@, ReloadsAfterExit(rl, level, s)),
                              ![c].awaiting = FALSE]
         o == [Op(name, c, level) EXCEPT
                 !.calls = IF cm /\ gtagDefined THEN <<UpdateCall(level = "all")>> ELSE <<>>,
                 !.onConsent = <<level>>,
                 !.cb = onConsentCall(level, ls, w.st),
                 !.error = w.threw]
     IN Finish(o, w.st, base, TRUE)
  /\ UNCHANGED <<now, pending, other>>

\* A click on "Accept all" / "Necessary only": the handler of the current render.
Click(c, level) ==
  handleConsent(c, level, comp[c].consentMode, comp[c].reloadOnConsent, comp[c].scripts, "click")

\* Escape: the keydown listener registered when showBanner last changed calls
\* the handleConsent of that render.
Escape(c) ==
  handleConsent(c, "necessary", comp[c].escConsentMode, comp[c].reloadOnConsent,
                comp[c].scripts, "escape")

\* The prompt is in the document: past "if (!mounted) return null", the
\* banner is rendered under showBanner.
PromptShown(r) == r.inTree = "yes" /\ r.mounted /\ r.showBanner

\* The floating reconsent button is rendered.
ReconsentShown(r) == ~r.showBanner /\ r.consent # NULL /\ r.showReconsent

\* handleReconsent: the floating button.
handleReconsent(c) ==
  /\ Live(comp[c]) /\ ReconsentShown(comp[c])
  /\ LET w == clearConsent(ls)
         base == [comp EXCEPT ![c].consent = NULL,
                              ![c].isVisible = FALSE,
                              ![c].showBanner = TRUE,
                              ![c].scriptsInjectedRef = FALSE,
                              ![c].injCount = 0]
     IN Finish([Op("reconsent", c, NULL) EXCEPT !.error = w.threw], w.st, base, TRUE)
  /\ UNCHANGED <<now, pending, other>>

\* window.location.reload(): the document and everything scheduled in it go.
PageGone ==
  /\ comp' = [d \in Comps |-> [GoneComp(comp[d]) EXCEPT !.timers = <<>>, !.raf2 = FALSE]]
  /\ hook' = [h \in Hooks |-> InitHook(hook[h].expiryDays)]
  /\ listeners' = <<>>
  /\ gtagDefined' = FALSE
  /\ pending' = 0
  /\ signal' = "none"

\* Mutant: the callback does not remove the banner.
AfterExit_KeepBanner(r) == [r EXCEPT !.timers = Tail(@)]

\* The callback of the 400 ms timer: setShowBanner(false) (a no-op once the
\* component has left the tree).
AfterExit(r) ==
  [r EXCEPT !.timers = Tail(@),
            !.showBanner = IF r.inTree = "yes" THEN FALSE ELSE @]

\* The 400 ms timer of handleConsent fires.
ExitTimer(c) ==
  /\ comp[c].timers # <<>>
  /\ LET reload == Head(comp[c].timers)
         base == [comp EXCEPT ![c] = AfterExit(@)]
     IN IF reload
        THEN /\ PageGone
             /\ out' = [Op("exit", c, NULL) EXCEPT !.reload = TRUE]
             /\ UNCHANGED ls
        ELSE /\ Finish(Op("exit", c, NULL), ls, base, FALSE)
             /\ UNCHANGED pending
  /\ UNCHANGED <<now, other>>

\* First animation frame: requests the second one.
Raf1(c) ==
  /\ comp[c].raf1
  /\ comp' = [comp EXCEPT ![c].raf1 = FALSE, ![c].raf2 = TRUE, ![c].frames = IncFrames(@)]
  /\ out' = IdleOut
  /\ UNCHANGED <<ls, now, hook, listeners, gtagDefined, pending, other, signal>>

\* Second animation frame: setIsVisible(true).
Raf2(c) ==
  /\ comp[c].raf2
  /\ LET base == [comp EXCEPT ![c].raf2 = FALSE,
                              ![c].frames = IncFrames(@),
                              ![c].isVisible = IF comp[c].inTree = "yes" THEN TRUE ELSE @]
     IN Finish(IdleOut, ls, base, FALSE)
  /\ UNCHANGED <<now, pending, other>>

\* The host re-renders CookieConsent with other props.
SetProps(c, s, cm) ==
  /\ comp[c].inTree = "yes"
  /\ <<s, cm>> # <<comp[c].scripts, comp[c].consentMode>>
  /\ LET base == [comp EXCEPT ![c].scripts = s, ![c].consentMode = cm]
     IN Finish(IdleOut, ls, base, FALSE)
  /\ UNCHANGED <<now, pending, other>>

\* The host re-renders CookieConsent with another waitForUpdate or
\* consentModeRegion.
SetModeProps(c, w, region) ==
  /\ comp[c].inTree = "yes"
  /\ <<w, region>> # <<comp[c].waitForUpdate, comp[c].consentModeRegion>>
  /\ LET base == [comp EXCEPT ![c].waitForUpdate = w, ![c].consentModeRegion = region]
     IN Finish(IdleOut, ls, base, FALSE)
  /\ UNCHANGED <<now, pending, other>>

\* The host removes CookieConsent: the effect cleanups run.
Unmount(c) ==
  /\ comp[c].inTree = "yes"
  /\ comp' = [comp EXCEPT ![c] = GoneComp(@)]
  /\ listeners' = SelectSeq(listeners, LAMBDA l : ~(l.kind = "comp" /\ l.id = c))
  /\ out' = IdleOut
  /\ UNCHANGED <<ls, now, hook, gtagDefined, pending, other, signal>>

\* ------------------------------------------------------------------ useConsent
\* A consumer of useConsent mounts: first render, then subscribe.
HookMount(h) ==
  /\ ~hook[h].mounted
  /\ hook' = [hook EXCEPT ![h] = [HookRender(@, ls, now) EXCEPT !.mounted = TRUE]]
  /\ listeners' = Append(listeners, [kind |-> "hook", id |-> h])
  /\ out' = [IdleOut EXCEPT !.error = HookThrew(hook[h], ls, now)]
  /\ UNCHANGED <<ls, now, comp, gtagDefined, pending, other, signal>>

\* The consumer renders again for a reason of its own.
HookRerender(h) ==
  /\ hook[h].mounted
  /\ hook' = [hook EXCEPT ![h] = HookRender(@, ls, now)]
  /\ hook' # hook
  /\ out' = [IdleOut EXCEPT !.error = HookThrew(hook[h], ls, now)]
  /\ UNCHANGED <<ls, now, comp, listeners, gtagDefined, pending, other, signal>>

\* useConsent().setConsent(level)
setConsent(h, level) ==
  /\ hook[h].mounted
  /\ LET w == writeConsent(ls, level, now)
     IN Finish([Op("setConsent", h, level) EXCEPT !.error = w.threw], w.st, comp, TRUE)
  /\ UNCHANGED <<now, pending, other>>

\* useConsent().resetConsent()
resetConsent(h) ==
  /\ hook[h].mounted
  /\ LET w == clearConsent(ls)
         base == [d \in Comps |-> [comp[d] EXCEPT !.awaiting = Live(comp[d])]]
     IN Finish([Op("resetConsent", h, NULL) EXCEPT !.error = w.threw], w.st, base, TRUE)
  /\ UNCHANGED <<now, pending, other>>

\* ------------------------------------------------------------------ consent-mode.ts
\* ConsentModeDefaults: every option is given (<<value>>) or left out (<<>>).
\* This is the empty record {}.
EmptyOptions ==
  [ad_storage |-> <<>>, ad_user_data |-> <<>>, ad_personalization |-> <<>>,
   analytics_storage |-> <<>>, functionality_storage |-> <<>>,
   personalization_storage |-> <<>>, security_storage |-> <<>>,
   wait_for_update |-> <<>>, region |-> <<>>, ads_data_redaction |-> <<>>,
   url_passthrough |-> <<>>, expiry_days |-> <<>>]

\* Options that differ in two of the tracking categories and in expiry_days.
ScriptOptions ==
  {[EmptyOptions EXCEPT !.ad_storage = a, !.analytics_storage = b, !.expiry_days = e] :
     a \in {<<>>, <<"granted">>, <<"denied">>},
     b \in {<<>>, <<"granted">>, <<"denied">>},
     e \in {<<>>, <<0>>, <<1>>}}

\* Options that differ in every field.
AllOptions ==
  [ad_storage : {<<>>, <<"granted">>, <<"denied">>},
   ad_user_data : {<<>>, <<"granted">>},
   ad_personalization : {<<>>, <<"granted">>},
   analytics_storage : {<<>>, <<"granted">>, <<"denied">>},
   functionality_storage : {<<>>, <<"denied">>},
   personalization_storage : {<<>>, <<"denied">>},
   security_storage : {<<>>, <<"denied">>},
   wait_for_update : {<<>>, <<0>>},
   region : RegionChoices,
   ads_data_redaction : {<<>>, <<TRUE>>, <<FALSE>>},
   url_passthrough : {<<>>, <<TRUE>>, <<FALSE>>},
   expiry_days : {<<>>, <<1>>}]

\* opts.x ?? dflt
OrDefault(given, dflt) == IF given = <<>> THEN dflt ELSE given[1]

\* Mutant: wait_for_update is not an option.
DefaultObj_FixedWait(opts) ==
  [cmd |-> "default",
   args |-> [k \in TrackingCats \cup OtherCats |->
               OrDefault(opts[k], IF k \in TrackingCats THEN "denied" ELSE "granted")],
   wait_for_update |-> 500,
   region |-> IF HasRegion(opts.region) THEN opts.region ELSE <<>>]

\* gtag('consent','default', defaultObj) of the generated script: each
\* category is opts.k ?? 'denied' (tracking) or opts.k ?? 'granted' (the
\* others), wait_for_update is opts.wait_for_update ?? 500, and region is a
\* key of the object only for a non-empty list.
DefaultObj(opts) ==
  [cmd |-> "default",
   args |-> [k \in TrackingCats \cup OtherCats |->
               OrDefault(opts[k], IF k \in TrackingCats THEN "denied" ELSE "granted")],
   wait_for_update |-> OrDefault(opts.wait_for_update, 500),
   region |-> IF HasRegion(opts.region) THEN opts.region ELSE <<>>]

\* gtag('set', key, true)
SetCall(key) == [cmd |-> "set", key |-> key, value |-> TRUE]

\* setCalls
SetCalls(opts) ==
  (IF OrDefault(opts.ads_data_redaction, FALSE) THEN <<SetCall("ads_data_redaction")>> ELSE <<>>)
  \o (IF OrDefault(opts.url_passthrough, FALSE) THEN <<SetCall("url_passthrough")>> ELSE <<>>)

\* Mutant: the level is not compared with 'all'.
ReturningUser_AnyLevel(opts, st, t) ==
  LET c == getItem(st, "loi25-consent")
      d == getItem(st, "loi25-consent-date")
  IN /\ ~c.threw /\ ~d.threw /\ c.val # NULL /\ d.val # NULL
     /\ st.date.kind = "num"
     /\ t - st.date.ms <= OrDefault(opts.expiry_days, DEFAULT_EXPIRY_DAYS) * TicksPerDay

\* The returning-user test of the generated script: c && d, then
\* age <= expiryDays && c === 'all'; a NaN age fails the comparison and a
\* throwing storage leaves the try block.
ReturningUser(opts, st, t) ==
  LET c == getItem(st, "loi25-consent")
      d == getItem(st, "loi25-consent-date")
  IN /\ ~c.threw /\ ~d.threw /\ c.val # NULL /\ d.val # NULL
     /\ st.date.kind = "num"
     /\ t - st.date.ms <= OrDefault(opts.expiry_days, DEFAULT_EXPIRY_DAYS) * TicksPerDay
     /\ c.val = "all"

GtagStatements(calls) == [i \in 1..Len(calls) |-> [stmt |-> "gtag", call |-> calls[i]]]

\* Mutant: the stored-consent check comes before the defaults.
ScriptSource_CheckFirst(opts) ==
  <<[stmt |-> "define"], [stmt |-> "check", opts |-> opts]>>
  \o GtagStatements(<<DefaultObj(opts)>> \o SetCalls(opts))

\* The statements of the returned script, in the order of the joined array:
\* the dataLayer / gtag definition, the default call, the set calls, the
\* stored-consent check.
ScriptSource(opts) ==
  <<[stmt |-> "define"]>>
  \o GtagStatements(<<DefaultObj(opts)>> \o SetCalls(opts))
  \o <<[stmt |-> "check", opts |-> opts]>>

\* The script executes, statement by statement: a gtag call pushes onto the
\* dataLayer, which must have been defined; an uncaught error ends the script;
\* the check is inside try/catch.
RECURSIVE RunScript(_, _, _, _)
RunScript(stmts, st, t, acc) ==
  IF stmts = <<>> \/ acc.error THEN acc
  ELSE
    LET s == Head(stmts) IN
    IF s.stmt = "define" THEN RunScript(Tail(stmts), st, t, [acc EXCEPT !.defined = TRUE])
    ELSE IF s.stmt = "gtag" THEN
      RunScript(Tail(stmts), st, t,
                IF acc.defined THEN [acc EXCEPT !.calls = Append(@, s.call)]
                ELSE [acc EXCEPT !.error = TRUE])
    ELSE
      RunScript(Tail(stmts), st, t,
                IF ReturningUser(s.opts, st, t) /\ acc.defined
                THEN [acc EXCEPT !.calls = Append(@, UpdateCall(TRUE))]
                ELSE acc)

\* The run of the script that getConsentModeScript(options) returns; options
\* is <<>> for a call without argument (options ?? {}).
getConsentModeScript(options, st, t) ==
  RunScript(ScriptSource(OrDefault(options, EmptyOptions)), st, t,
            [defined |-> FALSE, calls |-> <<>>, error |-> FALSE])

IsConsentCall(x) == x.cmd \in {"default", "update"}

\* The generated script runs in <head>, before React renders anything.
HeadScript(options) ==
  /\ signal = "none" /\ ~gtagDefined
  /\ \A c \in Comps : comp[c].inTree = "no"
  /\ \A h \in Hooks : ~hook[h].mounted
  /\ \E run \in {getConsentModeScript(options, ls, now)} :
       /\ out' = [Op("script", NULL, NULL) EXCEPT !.calls = run.calls,
                                                  !.error = run.error,
                                                  !.opts = <<OrDefault(options, EmptyOptions)>>,
                                                  !.options = options]
       /\ signal' = SignalAfter(signal, SelectSeq(run.calls, IsConsentCall))
       /\ gtagDefined' = run.defined
  /\ UNCHANGED <<ls, now, comp, hook, listeners, pending, other>>

\* ------------------------------------------------------------------ environment
\* Time passes.
Tick ==
  /\ now < MaxNow
  /\ ls.date.kind = "num"
  /\ now' = now + 1
  /\ out' = IdleOut
  /\ UNCHANGED <<ls, comp, hook, listeners, gtagDefined, pending, other, signal>>

\* Another tab of the same origin records a decision (its handleConsent writes
\* both keys); the storage event reaches this page later.
OtherDecision(level) ==
  /\ ls.mode = "ok" /\ pending < MaxPending
  /\ ls' = [ls EXCEPT !.level = level, !.date = NumDate(now)]
  /\ pending' = pending + 1
  /\ out' = IdleOut
  /\ UNCHANGED <<now, comp, hook, listeners, gtagDefined, other, signal>>

\* The other tab's handleConsent, statement by statement: setItem of the
\* level, then setItem of the timestamp.  Each write fires a storage event in
\* this page, which handles it at any later moment.
OtherSetLevel(level) ==
  /\ ls.mode = "ok" /\ other.pc = "idle"
  /\ ls' = [ls EXCEPT !.level = level]
  /\ other' = [pc |-> "mid", level |-> level]
  /\ pending' = pending + 1
  /\ out' = IdleOut
  /\ UNCHANGED <<now, comp, hook, listeners, gtagDefined, signal>>

OtherSetDate ==
  /\ other.pc = "mid"
  /\ ls' = [ls EXCEPT !.date = NumDate(now)]
  /\ other' = [other EXCEPT !.pc = "done"]
  /\ pending' = pending + 1
  /\ out' = IdleOut
  /\ UNCHANGED <<now, comp, hook, listeners, gtagDefined, signal>>

\* The storage event of a write of the other tab arrives in this page.
StorageEvent ==
  /\ pending > 0
  /\ pending' = pending - 1
  /\ Finish(IdleOut, ls, comp, TRUE)
  /\ UNCHANGED <<now, other>>

\* ------------------------------------------------------------------ specifications
\* The animation frames write raf1, raf2 and isVisible only, and nothing but
\* the frames themselves reads these three; Spec leaves the frames out and
\* SpecAnim checks them on their own.
Core ==
  \/ \E c \in Comps : Render(c)
  \/ \E c \in Comps : MountEffect(c)
  \/ \E c \in Comps, level \in Levels : Click(c, level)
  \/ \E c \in Comps : Escape(c)
  \/ \E c \in Comps : handleReconsent(c)
  \/ \E c \in Comps : ExitTimer(c)
  \/ \E c \in Comps : Unmount(c)
  \/ \E h \in Hooks : HookMount(h)
  \/ \E h \in Hooks, level \in Levels : setConsent(h, level)
  \/ \E h \in Hooks : resetConsent(h)

Next ==
  \/ Core
  \/ \E c \in Comps, s \in Markups, cm \in BOOLEAN : SetProps(c, s, cm)
  \/ \E h \in Hooks : HookRerender(h)
  \/ Tick

Spec == Init /\ [][Next]_vars

InitAnim ==
  /\ Init
  /\ \A c \in Comps : comp[c].scripts = "" /\ ~comp[c].consentMode /\ ~comp[c].reloadOnConsent

NextAnim ==
  \/ Core
  \/ \E c \in Comps : Raf1(c)
  \/ \E c \in Comps : Raf2(c)

SpecAnim == InitAnim /\ [][NextAnim]_vars

\* This page with another tab of the same origin writing the shared storage.
NextTabs ==
  \/ Core
  \/ \E c \in Comps, s \in Markups, cm \in BOOLEAN : SetProps(c, s, cm)
  \/ \E level \in Levels : OtherDecision(level)
  \/ StorageEvent

SpecTabs == Init /\ [][NextTabs]_vars

\* This page left alone by its user while the other tab records a decision.
NextRace ==
  \/ \E c \in Comps : Render(c)
  \/ \E c \in Comps : MountEffect(c)
  \/ \E c \in Comps : Unmount(c)
  \/ \E h \in Hooks : HookMount(h)
  \/ \E level \in Levels : OtherSetLevel(level)
  \/ OtherSetDate
  \/ StorageEvent

SpecRace == Init /\ [][NextRace]_vars

\* The page of a host that sets waitForUpdate and consentModeRegion, and
\* changes them and consentMode while the component is mounted.
WaitChoices == {DEFAULT_WAIT_FOR_UPDATE, 0}

InitMode ==
  /\ Init
  /\ \A c \in Comps : comp[c].scripts = "" /\ ~comp[c].reloadOnConsent

NextMode ==
  \/ Core
  \/ \E c \in Comps, cm \in BOOLEAN : SetProps(c, "", cm)
  \/ \E c \in Comps, w \in WaitChoices, region \in RegionChoices : SetModeProps(c, w, region)

SpecMode == InitMode /\ [][NextMode]_vars

\* The head script of getConsentModeScript on the storage of a returning or
\* new visitor, at any age of the stored record.
NextScript ==
  \/ \E opts \in ScriptOptions : HeadScript(<<opts>>)
  \/ Tick

SpecScript == Init /\ [][NextScript]_vars

\* The head script under every combination of options, and without argument,
\* for a new visitor and for one who accepted everything.
InitOptions ==
  /\ Init
  /\ ls.date = NumDate(0) /\ ls.level \in {"all", "necessary"}
  /\ \A c \in Comps : comp[c].scripts = "" /\ ~comp[c].consentMode /\ ~comp[c].reloadOnConsent

NextOptions ==
  \/ ~gtagDefined /\ \E opts \in AllOptions : HeadScript(<<opts>>)
  \/ HeadScript(<<>>)

SpecOptions == InitOptions /\ [][NextOptions]_vars

\* The same page on a storage close to its quota.
SpecQuota == InitQuota /\ [][Next]_vars

\* ------------------------------------------------------------------ claims
IsUpdate(x) == x.cmd = "update"
Decisions == {"click", "escape"}

\* C1: markup is injected only by a task that leaves the component mounted
\* with derived consent "all" and a non-empty scripts prop.
C1_InjectOnlyWhenAll ==
  \A c \in Comps :
    c \in out.injected => Live(comp[c]) /\ comp[c].consent = "all" /\ comp[c].scripts # ""

C1_Witness == \E c \in Comps : c \in out.injected /\ out.op = "click"

\* C2: the read at mount of a stored level with a numeric or missing
\* timestamp returns the level and leaves storage alone when the age is at
\* most expiryDays, and otherwise returns absent and removes both keys.
C2_ReadAsClaimed ==
  [][\A c \in Comps :
       (/\ comp[c].inTree = "yes" /\ ~comp[c].mounted /\ comp'[c].mounted
        /\ ls.mode = "ok" /\ ls.level # NULL /\ ls.date.kind # "NaN")
       => IF ls.date.kind = "num" /\ now - ls.date.ms <= comp[c].expiryDays * TicksPerDay
          THEN comp'[c].consent = ls.level /\ ls' = ls
          ELSE comp'[c].consent = NULL /\ ls'.level = NULL /\ ls'.date = NoDate]_vars

\* The mount read has just removed a record that a hook consumer had still
\* rendered as valid: the expired case.
C2_Witness ==
  /\ out.op = "mount" /\ out.level = NULL
  /\ ls.mode = "ok" /\ ls.level = NULL /\ ls.date = NoDate
  /\ \E h \in Hooks : hook[h].mounted /\ hook[h].consent = "all"

\* C3: with consentMode on, a decision (click or Escape) issues exactly one
\* "update" signal, granting on "all" and denying on "necessary".
C3_UpdateOnEveryDecision ==
  \A c \in Comps :
    (out.op \in Decisions /\ out.comp = c /\ comp[c].consentMode)
    => SelectSeq(out.calls, IsUpdate) = <<UpdateCall(out.level = "all")>>

\* C4: since mount or the last handleReconsent there has been at most one
\* injection, and on a mounted component only handleReconsent clears the
\* one-shot guard.
C4_AtMostOnce ==
  /\ [](\A c \in Comps : comp[c].injCount <= 1)
  /\ [][\A c \in Comps :
          (/\ Live(comp[c]) /\ Live(comp'[c])
           /\ comp[c].scriptsInjectedRef /\ ~comp'[c].scriptsInjectedRef)
          => out'.op = "reconsent" /\ out'.comp = c]_vars

\* Consent "all" set through the hook, on a component that has injected before.
C4_Witness ==
  \E c \in Comps :
    /\ out.op = "setConsent" /\ out.level = "all" /\ out.injected = {}
    /\ Live(comp[c]) /\ comp[c].consent = "all" /\ comp[c].scripts # ""
    /\ comp[c].injCount = 1

C6_NecessaryExample ==
  [][\A c \in Comps :
       /\ (/\ out'.op = "click" /\ out'.comp = c /\ out'.level = "necessary"
           /\ ls.mode = "ok" /\ ls.level = NULL /\ ls.date = NoDate
           /\ comp[c].timers = <<>>)
          => /\ ls'.level = "necessary" /\ ls'.date = NumDate(now)
             /\ out'.onConsent = <<"necessary">>
             /\ out'.injected = {}
             /\ comp'[c].timers = <<FALSE>>
       /\ (/\ out'.op = "exit" /\ out'.comp = c /\ Live(comp[c])
           /\ comp[c].consent = "necessary")
          => ~comp'[c].showBanner /\ out'.injected = {}]_vars

C6_Witness ==
  \E c \in Comps :
    /\ out.op = "click" /\ out.comp = c /\ out.level = "necessary"
    /\ now > 0 /\ ls.level = "necessary" /\ ls.date = NumDate(now)
    /\ comp[c].scripts # "" /\ comp[c].timers = <<FALSE>>

C8_ResetClears ==
  (out.op \in {"resetConsent", "reconsent"})
  => /\ ls.level = NULL /\ ls.date = NoDate
     /\ out.events = 1
     /\ \A c \in Comps : Live(comp[c]) => comp[c].consent = NULL
     /\ \A h \in Hooks : hook[h].mounted => hook[h].consent = NULL /\ hook[h].raw = NULL

C8_Witness ==
  /\ out.op = "resetConsent"
  /\ \E c \in Comps : Live(comp[c]) /\ comp[c].injCount = 1 /\ comp[c].showBanner

\* C9: on working storage, after resetConsent() the banner of a mounted
\* component is shown and stays shown until the next decision.
C9_ResetShowsBanner ==
  \A c \in Comps :
    (ls.mode = "ok" /\ Live(comp[c]) /\ comp[c].awaiting) => comp[c].showBanner

\* C10: with storage throwing, no task raises, every read yields no consent
\* and the mount shows the prompt.
C10_StorageOffSafe ==
  ls.mode = "off"
  => /\ ~out.error
     /\ \A c \in Comps : Live(comp[c]) => comp[c].consent = NULL
     /\ \A h \in Hooks : hook[h].consent = NULL
     /\ \A c \in Comps : (out.op = "mount" /\ out.comp = c) => comp[c].showBanner

C10_Witness ==
  /\ ls.mode = "off" /\ out.op = "exit"
  /\ \E h \in Hooks : hook[h].mounted

\* C11: with consentMode on and no exit timer pending, a dataLayer whose most
\* recent consent entry grants the tracking categories goes with a stored
\* record of level "all" that the component's own read accepts as not expired.
C11_NeverOverCollect ==
  \A c \in Comps :
    (/\ Live(comp[c]) /\ comp[c].consentMode /\ comp[c].timers = <<>>
     /\ signal = "granted")
    => ls.level = "all" /\ ~isExpired(ls, now, comp[c].expiryDays).val

\* C12: a mount with consentMode on issues "default" with the four tracking
\* categories denied; when storage holds "all" with a timestamp of age at most
\* expiryDays, an "update" granting the four follows it in the same task and
\* nothing else does; when the stored level is "necessary" or absent, the
\* task issues no "update".
C12_ReturningUser ==
  [][\A c \in Comps :
       (/\ comp[c].inTree = "yes" /\ ~comp[c].mounted /\ comp'[c].mounted
        /\ comp[c].consentMode)
       => /\ out'.calls # <<>>
          /\ out'.calls[1].cmd = "default"
          /\ \A k \in TrackingCats : out'.calls[1].args[k] = "denied"
          /\ (/\ ls.mode = "ok" /\ ls.level = "all" /\ ls.date.kind = "num"
              /\ now - ls.date.ms <= comp[c].expiryDays * TicksPerDay)
             => /\ Len(out'.calls) = 2
                /\ out'.calls[2] = UpdateCall(TRUE)
                /\ signal' = "granted"
          /\ ls.level \in {"necessary", NULL}
             => SelectSeq(out'.calls, IsUpdate) = <<>> /\ signal' = "denied"]_vars

\* A mount that found "all" at exactly the age expiryDays and signalled it.
C12_Witness ==
  /\ out.op = "mount" /\ out.level = "all" /\ Len(out.calls) = 2
  /\ ls.level = "all" /\ ls.date.kind = "num"
  /\ \E c \in Comps : now - ls.date.ms = comp[c].expiryDays * TicksPerDay

\* C13: a stored level whose timestamp entry is present but does not parse
\* to a number is read as expired: the mount leaves consent absent, both keys
\* removed and the prompt shown, and a hook that renders reports no consent.
C13_MalformedIsExpired ==
  [][/\ \A c \in Comps :
          (/\ comp[c].inTree = "yes" /\ ~comp[c].mounted /\ comp'[c].mounted
           /\ ls.mode = "ok" /\ ls.level # NULL /\ ls.date = BadDate)
          => /\ comp'[c].consent = NULL /\ comp'[c].showBanner
             /\ ls'.level = NULL /\ ls'.date = NoDate
     /\ \A h \in Hooks :
          (/\ ~hook[h].mounted /\ hook'[h].mounted
           /\ ls.mode = "ok" /\ ls.level # NULL /\ ls.date = BadDate)
          => hook'[h].consent = NULL]_vars

\* C14: every task of the component or the hook that starts with the
\* timestamp key present iff the level key is present ends that way.
C14_RecordInvariant ==
  [][((ls.level # NULL) <=> (ls.date # NoDate))
     => ((ls'.level # NULL) <=> (ls'.date # NoDate))]_vars

\* C15: once the other tab has made both writes of its decision and this tab
\* has handled every storage event, storage holds that level with a
\* timestamp, and this tab's mounted component derives that level.
C15_CrossTabConsistent ==
  (other.pc = "done" /\ pending = 0)
  => /\ ls.level = other.level /\ ls.date.kind = "num"
     /\ \A c \in Comps : Live(comp[c]) => comp[c].consent = other.level

\* C16: with no level stored, a task injects only if it is an accept-all
\* click on the banner.
C16_InjectOnlyAfterAccept ==
  [][(ls.level = NULL /\ out'.injected # {})
     => (out'.op = "click" /\ out'.level = "all")]_vars

\* C17: a mounted component that has injected the scripts markup does not
\* inject it again before it unmounts.
C17_OncePerMount ==
  [][\A c \in Comps : c \in out'.injected => ~comp[c].everInjected]_vars

\* C18: the mount takes its consent from its one read of the store and shows
\* the prompt iff that read returned absent; a level stored with a timestamp
\* of age at most expiryDays gives that level and no prompt, and an empty
\* store or a level without timestamp gives the prompt.
C18_Initialization ==
  [][\A c \in Comps :
       (comp[c].inTree = "yes" /\ ~comp[c].mounted /\ comp'[c].mounted)
       => /\ out'.level = getStoredConsent(ls, now, comp[c].expiryDays).val
          /\ comp'[c].consent = out'.level
          /\ comp'[c].showBanner <=> (out'.level = NULL)
          /\ (/\ ls.mode = "ok" /\ ls.level # NULL /\ ls.date.kind = "num"
              /\ now - ls.date.ms <= comp[c].expiryDays * TicksPerDay)
             => ~comp'[c].showBanner /\ comp'[c].consent = ls.level
          /\ (ls.mode = "off" \/ ls.level = NULL \/ ls.date = NoDate)
             => comp'[c].showBanner /\ comp'[c].consent = NULL]_vars

\* A mount on a stored "necessary": no prompt.
C18_Witness ==
  \E c \in Comps :
    /\ out.op = "mount" /\ out.comp = c /\ out.level = "necessary"
    /\ Live(comp[c]) /\ ~comp[c].showBanner /\ comp[c].consent = "necessary"
    /\ ls.level = "necessary" /\ ls.date.kind = "num"

\* C19: a render of a useConsent consumer reports the stored level iff the
\* level key holds one and the timestamp key holds a time of age at most
\* expiryDays, and reports null otherwise.
C19_HookRead ==
  [][\A h \in Hooks :
       (hook'[h].mounted /\ hook'[h] # hook[h])
       => hook'[h].consent =
            IF /\ ls'.mode # "off" /\ ls'.level # NULL /\ ls'.date.kind = "num"
               /\ now' - ls'.date.ms <= hook[h].expiryDays * TicksPerDay
            THEN ls'.level ELSE NULL]_vars

\* C20: on a mounted component with showReconsent on, the reconsent button
\* is rendered whenever the prompt is not in the document, and never while
\* the prompt is in the document.
C20_ReconsentAffordance ==
  \A c \in Comps :
    (Live(comp[c]) /\ comp[c].showReconsent)
    => /\ ~comp[c].showBanner => ReconsentShown(comp[c])
       /\ comp[c].showBanner => ~ReconsentShown(comp[c])

\* C21: an Escape key press has the effects of a necessary-only click made in
\* the same state: the record ("necessary", now) on working storage, one
\* onConsent("necessary"), one change event, one more exit timer without
\* reload, and an "update" denying the four categories iff the consentMode
\* prop is on when the key is pressed.
C21_EscapeIsNecessary ==
  [][\A c \in Comps :
       (out'.op = "escape" /\ out'.comp = c)
       => /\ ls.mode = "ok" => ls'.level = "necessary" /\ ls'.date = NumDate(now)
          /\ out'.level = "necessary"
          /\ out'.onConsent = <<"necessary">>
          /\ out'.events = 1
          /\ comp'[c].timers = Append(comp[c].timers, FALSE)
          /\ SelectSeq(out'.calls, IsUpdate) =
               IF comp[c].consentMode THEN <<UpdateCall(FALSE)>> ELSE <<>>]_vars

\* C22: the head script issues the "update" granting the four tracking
\* categories iff the level key holds "all" and the timestamp key holds a time
\* of age at most expiry_days (365 when left out); otherwise, a throwing
\* storage included, it issues no "update"; it never raises.
C22_ScriptReturningUser ==
  out.op = "script"
  => /\ ~out.error
     /\ SelectSeq(out.calls, IsUpdate) =
          IF /\ ls.mode # "off" /\ ls.level = "all" /\ ls.date.kind = "num"
             /\ now - ls.date.ms
                  <= OrDefault(out.opts[1].expiry_days, DEFAULT_EXPIRY_DAYS) * TicksPerDay
          THEN <<UpdateCall(TRUE)>> ELSE <<>>

\* The script found "all" at exactly the age expiry_days and granted.
C22_Witness ==
  /\ out.op = "script" /\ out.opts[1].expiry_days = <<1>>
  /\ ls.level = "all" /\ ls.date.kind = "num" /\ now - ls.date.ms = TicksPerDay
  /\ signal = "granted"

\* C23: whatever the options, the "default" call of the head script denies
\* the four tracking categories.
C23_ScriptDefaultDenied ==
  out.op = "script"
  => /\ out.calls[1].cmd = "default"
     /\ \A k \in TrackingCats : out.calls[1].args[k] = "denied"

\* C24: a step that leaves CookieConsent rendered with its mount effect not
\* yet run shows no prompt and no reconsent button, issues no consent signal,
\* injects nothing, and changes storage only if it is a call of the hook's
\* setConsent or resetConsent.
C24_NothingBeforeMount ==
  [][\A c \in Comps :
       (comp'[c].inTree = "yes" /\ ~comp'[c].mounted)
       => /\ ~PromptShown(comp'[c]) /\ ~ReconsentShown(comp'[c])
          /\ out'.calls = <<>> /\ signal' = signal /\ gtagDefined' = gtagDefined
          /\ out'.injected = {}
          /\ out'.op \notin {"setConsent", "resetConsent"} => ls' = ls]_vars

\* Before its mount effect, the component is given consentMode and scripts
\* while storage holds a valid "all".
C24_Witness ==
  \E c \in Comps :
    /\ comp[c].inTree = "yes" /\ ~comp[c].mounted
    /\ comp[c].consentMode /\ comp[c].scripts # ""
    /\ ls.level = "all" /\ ls.date.kind = "num"
    /\ out.op = "setConsent"

\* C25: a mounted component with no exit timer pending shows the prompt
\* whenever its own read of the store would return absent, and offers the
\* prompt or the reconsent button whenever its derived consent is absent.
C25_NoConsentImpliesPrompt ==
  \A c \in Comps :
    (Live(comp[c]) /\ comp[c].timers = <<>>)
    => /\ getStoredConsent(ls, now, comp[c].expiryDays).val = NULL => PromptShown(comp[c])
       /\ comp[c].consent = NULL => PromptShown(comp[c]) \/ ReconsentShown(comp[c])

\* C26: a mounted component with no exit timer pending and a derived consent
\* does not have the prompt in the document.
C26_ConsentImpliesNoPrompt ==
  \A c \in Comps :
    (Live(comp[c]) /\ comp[c].timers = <<>> /\ comp[c].consent # NULL)
    => ~PromptShown(comp[c])

\* C27: once the component has left the tree, none of the callbacks it
\* scheduled runs: its exit timers and its animation frame stay as they
\* are, and the page is not reloaded by them.
C27_NoCallbackAfterUnmount ==
  [][\A c \in Comps :
       comp[c].inTree = "gone"
       => /\ comp'[c].timers = comp[c].timers
          /\ comp'[c].raf2 = comp[c].raf2
          /\ ~out'.reload]_vars

\* C28: after a decision "necessary" on the banner, working storage holds
\* "necessary" and the component has injected nothing since its mount or its
\* last reconsent.
C28_LastDecisionWins ==
  \A c \in Comps :
    (out.op \in Decisions /\ out.comp = c /\ out.level = "necessary" /\ Live(comp[c]))
    => /\ ls.mode = "ok" => ls.level = "necessary"
       /\ comp[c].injCount = 0

\* C29: the task of an accept-all click injects nothing.
C29_InjectAfterExit ==
  \A c \in Comps :
    (out.op = "click" /\ out.level = "all" /\ out.comp = c) => c \notin out.injected

\* C29 as amended: an accept-all click on a component with scripts supplied
\* and not yet injected, which leaves the component with consent "all",
\* injects in its own task, with the prompt still in the document and the
\* exit timer pending; the exit timer's task injects nothing.
C29_InjectAtDecision ==
  [][\A c \in Comps :
       /\ (/\ out'.op = "click" /\ out'.level = "all" /\ out'.comp = c
           /\ comp[c].scripts # "" /\ ~comp[c].scriptsInjectedRef
           /\ comp'[c].consent = "all")
          => /\ c \in out'.injected
             /\ PromptShown(comp'[c]) /\ comp'[c].timers # <<>>
       /\ out'.op = "exit" => out'.injected = {}]_vars

\* The accept-all click has injected while the prompt is in the document.
C29_Witness ==
  \E c \in Comps :
    /\ out.op = "click" /\ out.level = "all" /\ out.comp = c
    /\ c \in out.injected /\ PromptShown(comp[c]) /\ comp[c].timers # <<>>
    /\ ls.level = "all" /\ ls.date = NumDate(now)

\* C30: consentMode is on from the mount onwards (no action of the specification
\* this is checked under changes the prop); with no exit timer pending, a
\* component whose consent is "all" has a granting call as the most recent
\* consent call on the dataLayer.
C30_SignalFollowsConsent ==
  \A c \in Comps :
    (/\ Live(comp[c]) /\ comp[c].consentMode /\ comp[c].consentModeInitRef
     /\ comp[c].timers = <<>> /\ comp[c].consent = "all")
    => signal = "granted"

\* C31: a setConsent(L) on a working storage leaves every mounted useConsent
\* consumer reporting consent = L (hasConsent is consent # NULL).
C31_SetConsentReported ==
  [][\A h \in Hooks :
       (out'.op = "setConsent" /\ ls.mode = "ok" /\ hook[h].mounted)
       => hook'[h].consent = out'.level]_vars

\* A render of a useConsent consumer on its own (its mount or a re-render of
\* its host, no event dispatched), on a stored level whose record is expired
\* for its expiryDays.
HookReadsExpired(h) ==
  /\ out'.op = "idle" /\ out'.events = 0 /\ hook'[h].mounted /\ comp' = comp
  /\ (~hook[h].mounted \/ hook'[h] # hook[h])
  /\ ls.mode = "ok" /\ ls.level # NULL
  /\ isExpired(ls, now, hook[h].expiryDays).val

MountCalls(st, t, e) ==
  LET r == getStoredConsent(st, t, e)
      o == [InitComp("", TRUE, FALSE, TRUE, e) EXCEPT !.inTree = "yes"]
      n == [o EXCEPT !.mounted = TRUE, !.consent = r.val, !.showBanner = ShowAtMount(r.val)]
  IN ConsentModeCalls(o, n)

\* C33: on the same storage and with the same expiry setting, the head script
\* issues the granting "update" exactly when the component's mount does.
C33_ScriptAgreesWithComponent ==
  out.op = "script" =>
    LET e == OrDefault(out.opts[1].expiry_days, DEFAULT_EXPIRY_DAYS)
    IN (SelectSeq(out.calls, IsUpdate) = <<UpdateCall(TRUE)>>)
       <=> (SelectSeq(MountCalls(ls, now, e), IsUpdate) = <<UpdateCall(TRUE)>>)

IsDefault(x) == x.cmd = "default"

\* C34: a "default" call is the component's first of its mount, is issued by a
\* render with consentMode on, denies the four tracking categories, grants the
\* three others, carries the waitForUpdate prop, and carries the region list
\* exactly when consentModeRegion is a non-empty list.
C34_DefaultOnce ==
  [][\A c \in Comps :
       LET ds == SelectSeq(out'.calls, IsDefault) IN
       /\ comp'[c].defaultCount <= 1
       /\ ds # <<>> =>
            /\ Len(ds) = 1 /\ out'.calls[1] = ds[1]
            /\ comp[c].defaultCount = 0 /\ comp'[c].defaultCount = 1
            /\ comp'[c].consentMode /\ Live(comp'[c])
            /\ \A k \in TrackingCats : ds[1].args[k] = "denied"
            /\ \A k \in OtherCats : ds[1].args[k] = "granted"
            /\ ds[1].wait_for_update = comp'[c].waitForUpdate
            /\ ds[1].region = IF HasRegion(comp'[c].consentModeRegion)
                              THEN comp'[c].consentModeRegion ELSE <<>>]_vars

C34_Witness ==
  \E c \in Comps :
    /\ comp[c].defaultCount = 1 /\ out.op = "mount" /\ out.comp = c
    /\ out.calls # <<>> /\ out.calls[1].cmd = "default"
    /\ out.calls[1].wait_for_update = 0
    /\ out.calls[1].region = << <<"CA-QC">> >>

C36_ReloadOnlyAfterAcceptAll ==
  [][\A c \in Comps :
       /\ (out'.op \in Decisions /\ out'.comp = c) =>
            /\ ~out'.reload
            /\ comp'[c].timers =
                 Append(comp[c].timers,
                        out'.level = "all" /\ comp[c].reloadOnConsent /\ comp[c].scripts # "")
       /\ (out'.reload /\ out'.comp = c) =>
            /\ out'.op = "exit" /\ comp[c].timers # <<>> /\ Head(comp[c].timers)
            /\ comp'[c].timers = <<>>
       /\ out'.reload => out'.comp \in Comps]_vars

C36_Witness ==
  \E c \in Comps :
    /\ out.op = "exit" /\ out.comp = c /\ out.reload
    /\ comp[c].reloadOnConsent /\ comp[c].scripts # "" /\ ls.level = "all"

\* C37: the prompt enters the document in the non-visible phase, and while it
\* is in the document it is in the visible phase only after two animation-frame
\* callbacks have run since it entered.
C37_EntranceSequencing ==
  [][\A c \in Comps :
       /\ (~PromptShown(comp[c]) /\ PromptShown(comp'[c])) => ~comp'[c].isVisible
       /\ (PromptShown(comp'[c]) /\ comp'[c].isVisible) => comp'[c].frames >= 2]_vars

C39_StatementOrder ==
  out.op = "script" =>
    LET o == out.opts[1] IN
    /\ ~out.error /\ gtagDefined
    /\ out.calls[1].cmd = "default"
    /\ out.calls =
         <<out.calls[1]>>
         \o (IF o.ads_data_redaction = <<TRUE>> THEN <<SetCall("ads_data_redaction")>> ELSE <<>>)
         \o (IF o.url_passthrough = <<TRUE>> THEN <<SetCall("url_passthrough")>> ELSE <<>>)
         \o SelectSeq(out.calls, IsUpdate)

C39_Witness ==
  /\ out.op = "script" /\ Len(out.calls) = 4
  /\ out.calls[2] = SetCall("ads_data_redaction") /\ out.calls[3] = SetCall("url_passthrough")
  /\ out.calls[4] = UpdateCall(TRUE) /\ signal = "granted"

====
